---- MODULE Spec2Model ----
(***************************************************************************)
(* The expense dashboard of src/app.py as a state machine.                  *)
(*                                                                         *)
(* The script runs from top to bottom once per user interaction: it loads  *)
(* the three CSV tables, evaluates every widget, runs the handler of the   *)
(* one button that was clicked (if any) and renders.  One action of the    *)
(* model is one such run.  The state is the three persisted tables, the    *)
(* script's globals as the run leaves them, and the widget values and      *)
(* message of the run.                                                     *)
(* Where two browser sessions run at once, a run is two steps, its read of *)
(* the files and its write of one (sessions, under SpecRace).              *)
(*                                                                         *)
(* Amounts are integers in hundredths (cents); a conversion rate is an     *)
(* integer in hundredths too.  A calendar date is a day number; a pandas   *)
(* Timestamp is a number of hours (24 per day).                            *)
(***************************************************************************)
EXTENDS Integers, Sequences, FiniteSets, TLC

VARIABLES
    expense_file,        \* data/expense_data.csv
    budget_file,         \* data/budget_data.csv
    income_file,         \* data/income_data.csv
    expense_data,        \* the script's global after the run
    budget_data,
    income_data,
    df_date,             \* the three results of filter_dataframe in the run
    df_category,
    filtered_df,
    analysis,            \* start_date, end_date, selected_categories, selected_items
    button,              \* the button whose click started the run
    form,                \* the values the user gave the widgets of a form
    msg,                 \* what the run reported last, and the line that reported it
    sessions             \* the runs of two browser sessions, step by step

vars == <<expense_file, budget_file, income_file, expense_data, budget_data,
          income_data, df_date, df_category, filtered_df, analysis, button, form, msg,
          sessions>>

----------------------------------------------------------------------------
(* Bounds and sample inputs *)

MaxRows == 2          \* rows over the three tables together
MaxFilterRows == 2    \* rows of a table drawn by InitFilter
MaxEntryRows == 2     \* rows over the three tables under SpecEntry
MaxFormRows == 2      \* rows over the three tables under SpecForms
MaxTimes == 3         \* how often an amount is normalized over
MaxDeleteRows == 3     \* rows of a table drawn by InitDelete
MaxChartRows == 3      \* rows of a table drawn by InitCharts
MaxPrefillRows == 2    \* rows of a table drawn by InitPrefill
MaxEditRows == 2       \* rows of a table drawn by InitEdit
MaxRaceRows == 3       \* rows of the expense file under SpecRace

Dates == {1, 2}
ItemNames == {"Milk", "Tea"}
CategoryNames == {"Food", "Fun"}

\* os.path.exists(DATA_FILE) is False
NoFile == [exists |-> FALSE, cols |-> <<>>, rows |-> <<>>]
NaN == "NaN"          \* pandas' missing value: an empty CSV cell, or None
NoCol == "no column"  \* the cell of a column the table does not have
NoRange == <<>>       \* date_range=None
NoFilters == <<>>     \* col_filters=None, or an empty dict

----------------------------------------------------------------------------
(* Sequences *)

Range(s) == {s[i] : i \in DOMAIN s}

RECURSIVE SeqsUpTo(_, _)
SeqsUpTo(S, n) ==
    IF n = 0 THEN {<<>>}
    ELSE LET shorter == SeqsUpTo(S, n - 1)
         IN  shorter \cup {Append(s, x) : s \in {t \in shorter : Len(t) = n - 1}, x \in S}

Max(S) == CHOOSE x \in S : \A y \in S : y <= x
Min(S) == CHOOSE x \in S : \A y \in S : x <= y

Has(cols, c) == \E i \in DOMAIN cols : cols[i] = c

----------------------------------------------------------------------------
(* Dates *)

\* pd.to_datetime(d) of a date: midnight of that day
ToDatetime(d) == d * 24

\* Series.dt.date: the day of a Timestamp
DtDate(ts) == ts \div 24

\* Series.dt.day_name()
DayName(ts) ==
    LET k == DtDate(ts) % 7
    IN  CASE k = 0 -> "Thursday" [] k = 1 -> "Friday"  [] k = 2 -> "Saturday"
          [] k = 3 -> "Sunday"   [] k = 4 -> "Monday"  [] k = 5 -> "Tuesday"
          [] OTHER -> "Wednesday"

----------------------------------------------------------------------------
(* filter_dataframe *)

\* as ApplyColFilters, each entry filtering the whole table anew, so that only
\* the last entry counts
ApplyColFiltersLastOnly(rows, col_filters) ==
    IF col_filters = <<>> THEN rows
    ELSE LET col    == col_filters[Len(col_filters)][1]
             values == col_filters[Len(col_filters)][2]
             Keep(r) == r[col] \in values
         IN  SelectSeq(rows, Keep)

\* as ApplyColFilters, an entry with no value taken as no constraint
RECURSIVE ApplyColFiltersSkipEmpty(_, _)
ApplyColFiltersSkipEmpty(rows, col_filters) ==
    IF col_filters = <<>> THEN rows
    ELSE LET col    == Head(col_filters)[1]
             values == Head(col_filters)[2]
             Keep(r) == values = {} \/ r[col] \in values
         IN  ApplyColFiltersSkipEmpty(SelectSeq(rows, Keep), Tail(col_filters))

\* filtered_df[filtered_df[col].isin(values)], once per entry of col_filters
RECURSIVE ApplyColFilters(_, _)
ApplyColFilters(rows, col_filters) ==
    IF col_filters = <<>> THEN rows
    ELSE LET col    == Head(col_filters)[1]
             values == Head(col_filters)[2]
             Keep(r) == r[col] \in values
         IN  ApplyColFilters(SelectSeq(rows, Keep), Tail(col_filters))

\* as ApplyDateRange, the end date left out
ApplyDateRangeExclusive(rows, date_range) ==
    IF date_range = NoRange THEN rows
    ELSE LET Keep(r) == /\ r.Date >= ToDatetime(date_range[1])
                        /\ r.Date < ToDatetime(date_range[2])
         IN  SelectSeq(rows, Keep)

\* the rows with start_date <= date_col <= end_date
ApplyDateRange(rows, date_range) ==
    IF date_range = NoRange THEN rows
    ELSE LET start_date == date_range[1]
             end_date   == date_range[2]
             Keep(r) == /\ r.Date >= ToDatetime(start_date)
                        /\ r.Date <= ToDatetime(end_date)
         IN  SelectSeq(rows, Keep)

\* as FilterDataframe, the rows of the result numbered anew from 0
FilterDataframeRenumbered(df, col_filters, date_range) ==
    LET kept == ApplyDateRange(ApplyColFilters(df.rows, col_filters), date_range)
    IN  [df EXCEPT !.rows = [i \in DOMAIN kept |-> [kept[i] EXCEPT !.idx = i - 1]]]

\* the boolean masks keep each row under the index label it has in df
FilterDataframe(df, col_filters, date_range) ==
    [df EXCEPT !.rows = ApplyDateRange(ApplyColFilters(df.rows, col_filters), date_range)]

Unique(rows, col) == {rows[i][col] : i \in DOMAIN rows}
Index(df) == {df.rows[i].idx : i \in DOMAIN df.rows}

----------------------------------------------------------------------------
(* CSV cells *)

\* pd.read_csv: an empty cell is read as NaN
ReadCell(text) == IF text = "" THEN NaN ELSE text

\* DataFrame.to_csv: NaN and None are written as an empty cell
WriteCell(v) == IF v = NaN THEN "" ELSE v

\* to_csv of a column of datetime.date objects (the Add Expense form's table)
FormatDate(d) == d

\* to_csv of a datetime64 column of midnights: the date alone
FormatTimestamp(ts) == DtDate(ts)

----------------------------------------------------------------------------
(* load_data, save_data and the expense table along one run of the script *)

ExpenseColumns == <<"Date", "Item", "Category", "Cost in EUR">>

\* load_data(): read_csv and pd.to_datetime of 'Date', or an empty table
LoadData(file) ==
    IF ~file.exists THEN [cols |-> ExpenseColumns, rows |-> <<>>]
    ELSE [cols |-> file.cols,
          rows |-> [i \in DOMAIN file.rows |->
                      [idx      |-> i - 1,
                       Date     |-> ToDatetime(file.rows[i].Date),
                       Item     |-> ReadCell(file.rows[i].Item),
                       Category |-> ReadCell(file.rows[i].Category),
                       Cost     |-> file.rows[i].Cost,
                       Currency |-> ReadCell(file.rows[i].Currency),
                       Day      |-> ReadCell(file.rows[i].Day)]]]

\* save_data(data): to_csv(index=False); Fmt writes the 'Date' column
SaveData(data, Fmt(_)) ==
    [exists |-> TRUE, cols |-> data.cols,
     rows |-> [i \in DOMAIN data.rows |->
                 [Date     |-> Fmt(data.rows[i].Date),
                  Item     |-> WriteCell(data.rows[i].Item),
                  Category |-> WriteCell(data.rows[i].Category),
                  Cost     |-> data.rows[i].Cost,
                  Currency |-> WriteCell(data.rows[i].Currency),
                  Day      |-> WriteCell(data.rows[i].Day)]]]

\* if 'Currency' not in df.columns: df['Currency'] = None
AddCurrencyColumn(df) ==
    IF Has(df.cols, "Currency") THEN df
    ELSE [cols |-> Append(df.cols, "Currency"),
          rows |-> [i \in DOMAIN df.rows |-> [df.rows[i] EXCEPT !.Currency = NaN]]]

\* expense_data['Date'] = pd.to_datetime(expense_data['Date'], ...).dt.date
DatesToDate(df) ==
    [df EXCEPT !.rows = [i \in DOMAIN df.rows |->
                           [df.rows[i] EXCEPT !.Date = DtDate(df.rows[i].Date)]]]

\* the expense table as the Add Expense form sees it
ExpenseAtForm(file) == DatesToDate(AddCurrencyColumn(LoadData(file)))

\* Analyze expense: 'Date' back to Timestamps, and the derived 'Day' column
WithDay(df) ==
    [cols |-> IF Has(df.cols, "Day") THEN df.cols ELSE Append(df.cols, "Day"),
     rows |-> [i \in DOMAIN df.rows |->
                 [df.rows[i] EXCEPT !.Date = ToDatetime(df.rows[i].Date),
                                    !.Day  = DayName(ToDatetime(df.rows[i].Date))]]]

\* the three filter_dataframe calls of Analyze expense
DfDate(df, start_date, end_date) ==
    FilterDataframe(df, NoFilters, <<start_date, end_date>>)

DfCategory(df, start_date, end_date, selected_categories) ==
    FilterDataframe(df, << <<"Category", selected_categories>> >>, <<start_date, end_date>>)

FilteredDf(df, a) ==
    FilterDataframe(df, << <<"Category", a.selected_categories>>,
                           <<"Item", a.selected_items>> >>,
                    <<a.start_date, a.end_date>>)

\* expense_data['Date'].min().date() .. expense_data['Date'].max().date(); an
\* empty table has no date (0)
DateSpan(df) ==
    IF df.rows = <<>> THEN {0}
    ELSE Min({DtDate(df.rows[i].Date) : i \in DOMAIN df.rows}) ..
         Max({DtDate(df.rows[i].Date) : i \in DOMAIN df.rows})

\* the values the date inputs and the two multiselects can hold: the dates lie
\* between the earliest and the latest date of the table, the categories are
\* among those of df_date and the items among those of df_category
AnalysisChoices(df) ==
    UNION { UNION { { [start_date |-> sd, end_date |-> ed,
                       selected_categories |-> cs, selected_items |-> is] :
                        is \in SUBSET Unique(DfCategory(df, sd, ed, cs).rows, "Item") } :
                    cs \in SUBSET Unique(DfDate(df, sd, ed).rows, "Category") } :
            sd \in DateSpan(df), ed \in DateSpan(df) }

\* the widgets' defaults: the whole span, every category, every item
DefaultAnalysis(df) ==
    [start_date |-> Min(DateSpan(df)), end_date |-> Max(DateSpan(df)),
     selected_categories |-> Unique(df.rows, "Category"),
     selected_items |-> Unique(df.rows, "Item")]

----------------------------------------------------------------------------
(* load_budget_data, save_budget_data, load_income_data, save_income_data *)

BudgetColumns == <<"Month", "Year", "Item", "Category", "Budget">>
IncomeColumns == <<"Month", "Year", "Category", "Income">>

\* A 'Month' cell is a number n, written with a leading zero ("03") when pad.
\* Series.astype(int) reads either text as the number.
AsTypeInt(month) == [month EXCEPT !.pad = FALSE]

\* f"{i:02d}", an option of the Edit Month selectbox
TwoDigits(i) == [n |-> i, pad |-> i < 10]

\* month_names.index(selected_month) + 1
MonthIndex(i) == [n |-> i, pad |-> FALSE]

LoadBudgetData(file) ==
    IF ~file.exists THEN [cols |-> BudgetColumns, rows |-> <<>>]
    ELSE [cols |-> file.cols,
          rows |-> [i \in DOMAIN file.rows |->
                      [idx      |-> i - 1,
                       Month    |-> AsTypeInt(file.rows[i].Month),
                       Year     |-> file.rows[i].Year,
                       Item     |-> ReadCell(file.rows[i].Item),
                       Category |-> ReadCell(file.rows[i].Category),
                       Budget   |-> file.rows[i].Budget,
                       Currency |-> ReadCell(file.rows[i].Currency)]]]

SaveBudgetData(data) ==
    [exists |-> TRUE, cols |-> data.cols,
     rows |-> [i \in DOMAIN data.rows |->
                 [Month    |-> data.rows[i].Month,
                  Year     |-> data.rows[i].Year,
                  Item     |-> WriteCell(data.rows[i].Item),
                  Category |-> WriteCell(data.rows[i].Category),
                  Budget   |-> data.rows[i].Budget,
                  Currency |-> WriteCell(data.rows[i].Currency)]]]

LoadIncomeData(file) ==
    IF ~file.exists THEN [cols |-> IncomeColumns, rows |-> <<>>]
    ELSE [cols |-> file.cols,
          rows |-> [i \in DOMAIN file.rows |->
                      [idx      |-> i - 1,
                       Month    |-> AsTypeInt(file.rows[i].Month),
                       Year     |-> file.rows[i].Year,
                       Category |-> ReadCell(file.rows[i].Category),
                       Income   |-> file.rows[i].Income,
                       Currency |-> ReadCell(file.rows[i].Currency)]]]

SaveIncomeData(data) ==
    [exists |-> TRUE, cols |-> data.cols,
     rows |-> [i \in DOMAIN data.rows |->
                 [Month    |-> data.rows[i].Month,
                  Year     |-> data.rows[i].Year,
                  Category |-> WriteCell(data.rows[i].Category),
                  Income   |-> data.rows[i].Income,
                  Currency |-> WriteCell(data.rows[i].Currency)]]]

\* the budget and income tables as their forms see them
BudgetAtForm(file) == AddCurrencyColumn(LoadBudgetData(file))
IncomeAtForm(file) == AddCurrencyColumn(LoadIncomeData(file))

----------------------------------------------------------------------------
(* Currency conversion *)

\* round(cost / eur_pkr_rate, 2) in cents, for cost cents at a rate of rate
\* hundredths.  Python rounds the binary quotient to the nearest hundredth.  A
\* quotient that lies exactly half way is rounded to the even hundredth when the
\* division is exact in binary (both operands and the quotient are multiples
\* of 1/8 here); when it is not, the double lies just above or just below the
\* half and either neighbour can result.
Round2(cost, rate) ==
    LET q   == (100 * cost) \div rate
        rem == (100 * cost) % rate
    IN  IF 2 * rem < rate THEN {q}
        ELSE IF 2 * rem > rate THEN {q + 1}
        ELSE IF cost % 25 = 0 /\ rate % 25 = 0 /\ (2 * q + 1) % 25 = 0
             THEN {IF q % 2 = 0 THEN q ELSE q + 1}
             ELSE {q, q + 1}

\* as Normalize, an amount in any currency converted: one that is not in PKR
\* at the rate of 310.00 the rate input proposes
NormalizeAtDefault(cost, currency, rate) ==
    Round2(cost, IF currency = "PKR" THEN rate ELSE 31000)

\* if currency == 'PKR': cost = round(cost / eur_pkr_rate, 2)
Normalize(cost, currency, rate) ==
    IF currency = "PKR" THEN Round2(cost, rate) ELSE {cost}

----------------------------------------------------------------------------
(* pandas operations on a table *)

\* Series == v: NaN equals nothing
Matching(rows, col, v) ==
    LET Keep(r) == r[col] # NaN /\ r[col] = v
    IN  SelectSeq(rows, Keep)

\* as FirstMatch, the last of the matching rows
LastMatch(rows, col, v) == Matching(rows, col, v)[Len(Matching(rows, col, v))]

\* df[df[col] == v].iloc[0], where a row matches
FirstMatch(rows, col, v) == Matching(rows, col, v)[1]

\* lines 158-163: what selecting an existing item puts into the Add Expense form
ExpensePrefill(df, selected_item) ==
    LET item_data == FirstMatch(df.rows, "Item", selected_item)
    IN  [selected_category |-> item_data.Category, cost |-> item_data.Cost]

\* lines 325-330: the same for the Add Budget form
BudgetPrefill(df, selected_budget_item) ==
    LET budget_item_data == FirstMatch(df.rows, "Item", selected_budget_item)
    IN  [selected_budget_category |-> budget_item_data.Category,
         budget |-> budget_item_data.Budget]

\* lines 424-426: what selecting an existing category puts into the Add Income form
IncomePrefill(df, selected_income_category) ==
    LET income_category_data == FirstMatch(df.rows, "Category", selected_income_category)
    IN  [selected_income |-> income_category_data.Income]

\* reset_index(drop=True), and the ignore_index=True of pd.concat
ResetIndex(rows) == [i \in DOMAIN rows |-> [rows[i] EXCEPT !.idx = i - 1]]

\* as Concat, the rows of df left out of the result
ConcatNewOnly(df, row) == [df EXCEPT !.rows = ResetIndex(<<row>>)]

\* pd.concat([df, new], ignore_index=True): a column only df has is NaN in the new row
Concat(df, row) == [df EXCEPT !.rows = ResetIndex(Append(df.rows, row))]

----------------------------------------------------------------------------
(* Expense visualization: the total and the two grouped charts *)

\* Series.sum() of 'Cost in EUR', in cents
RECURSIVE SumCost(_)
SumCost(rows) == IF rows = <<>> THEN 0 ELSE Head(rows).Cost + SumCost(Tail(rows))

\* lines 468-469: total_cost; a sum of cents has no digit for round(., 2) to drop
TotalCost(df) == SumCost(df.rows)

\* the keys of a groupby come out sorted: Timestamps ascending
RECURSIVE Ascending(_)
Ascending(S) == IF S = {} THEN <<>> ELSE <<Min(S)>> \o Ascending(S \ {Min(S)})

\* the texts of the model in the order Python sorts them
SortedTexts == <<"", "Food", "Fun", "Milk", "Tea">>

\* the rows of one group: those that hold the key
Group(rows, col, key) ==
    LET Holds(r) == r[col] = key
    IN  SelectSeq(rows, Holds)

\* as GroupBySum, each group summed without its first row
GroupBySumSkipFirst(rows, col, keys) ==
    [i \in DOMAIN keys |->
        [key |-> keys[i], Cost |-> SumCost(Tail(Group(rows, col, keys[i])))]]

\* as GroupBySum, each group holding its first row alone
GroupBySumFirstOnly(rows, col, keys) ==
    [i \in DOMAIN keys |->
        [key |-> keys[i], Cost |-> Head(Group(rows, col, keys[i])).Cost]]

\* df.groupby(col)['Cost in EUR'].sum().reset_index() for the sorted keys: one
\* entry per key, the sum of the rows that hold it
GroupBySum(rows, col, keys) ==
    [i \in DOMAIN keys |->
        [key |-> keys[i], Cost |-> SumCost(Group(rows, col, keys[i]))]]

\* line 509: cost_over_time.  No row of filtered_df has a missing date.
CostOverTime(df) == GroupBySum(df.rows, "Date", Ascending(Unique(df.rows, "Date")))

\* line 531: groupby('Item') leaves out the rows whose item is NaN (dropna)
ItemCost(df) ==
    LET Present(t) == t \in Unique(df.rows, "Item") \ {NaN}
    IN  GroupBySum(df.rows, "Item", SelectSeq(SortedTexts, Present))

\* the orders of the entries of s
Orders(s) ==
    {p \in [DOMAIN s -> DOMAIN s] : \A i, j \in DOMAIN s : i # j => p[i] # p[j]}

\* as SortValues, from low to high
SortValuesAscending(s) ==
    {[i \in DOMAIN s |-> s[p[i]]] : p \in
        {q \in Orders(s) : \A i, j \in DOMAIN s : i < j => s[q[i]].Cost <= s[q[j]].Cost}}

\* line 534: sort_values(by='Cost in EUR', ascending=False) with the default
\* kind='quicksort', which is not a stable sort: entries of equal cost come out
\* in the order the sort of the installed numpy leaves them in (the order of
\* the keys under a stable sort)
SortValues(s) ==
    {[i \in DOMAIN s |-> s[p[i]]] : p \in
        {q \in Orders(s) : \A i, j \in DOMAIN s : i < j => s[q[i]].Cost >= s[q[j]].Cost}}

\* lines 529-534: category_cost, the table of the bar chart
CategoryCost(df) == SortValues(ItemCost(df))

----------------------------------------------------------------------------
(* One run of the script, section by section *)

TotalRows(f) == Len(f.rows)
Stored == TotalRows(expense_file) + TotalRows(budget_file) + TotalRows(income_file)

NoFrame == [cols |-> <<>>, rows |-> <<>>]      \* a name the run never assigned
NoAnalysis == [start_date |-> 0, end_date |-> 0,
               selected_categories |-> {}, selected_items |-> {}]

\* every form widget at its default; target names the form the user has filled
NoForm == [target |-> "none", selected |-> "", new_text |-> "",
           selected_category |-> "", new_category |-> "", amount |-> 0,
           currency |-> "", rate |-> 0, date |-> 0, month |-> 0, year |-> 0,
           selected_rows |-> {}, selected_row |-> -1]

\* the widgets of one form: the user's values when the form is the one filled
Widgets(f, target) == IF f.target = target THEN f ELSE NoForm

\* what a run reports, and the line of the script that reported it
Said(text, line) == [text |-> text, line |-> line]
Quiet == Said("none", 0)

\* an uncaught exception ends the run at its line
Exceptions == {"IndexError", "StreamlitAPIException", "ValueError"}
Raised(m) == m.text \in Exceptions

\* the run got past the given line of the script
Reached(m, line) == ~Raised(m) \/ m.line > line

\* lines 96-98 and 123-135: the three tables are loaded
LoadAll ==
    [expense_file |-> expense_file, budget_file |-> budget_file,
     income_file  |-> income_file,
     expense_data |-> AddCurrencyColumn(LoadData(expense_file)),
     budget_data  |-> BudgetAtForm(budget_file),
     income_data  |-> IncomeAtForm(income_file),
     df_date |-> NoFrame, df_category |-> NoFrame, filtered_df |-> NoFrame,
     analysis |-> NoAnalysis, msg |-> Quiet]

\* Streamlit runs the script of each browser session in a thread of its own.
\* A session whose run has not started is idle; accepted holds the records
\* its runs have reported as added.
Sessions == {1, 2}
NoRun == [pc |-> "idle", f |-> NoForm, r |-> [msg |-> Quiet], accepted |-> {}]
NoSessions == [s \in Sessions |-> NoRun]

\* new_x if new_x else selected_x
Resolved(new_text, selected) == IF new_text # "" THEN new_text ELSE selected

\* as AddOutcome, the check of the resolved values left out
AddOutcomeSentinelsOnly(selected_item, new_item, selected_category, new_category, add_item, add_category) ==
    IF selected_item = add_item /\ new_item = "" THEN "new item missing"
    ELSE IF selected_category = add_category /\ new_category = "" THEN "new category missing"
    ELSE "added"

\* the if / elif chain of the Add Item and Add Budget Item handlers
AddOutcome(selected_item, new_item, selected_category, new_category, add_item, add_category) ==
    IF selected_item = add_item /\ new_item = "" THEN "new item missing"
    ELSE IF selected_category = add_category /\ new_category = "" THEN "new category missing"
    ELSE IF Resolved(new_item, selected_item) = ""
            \/ Resolved(new_category, selected_category) = "" THEN "item or category missing"
    ELSE "added"

\* the if / elif chain of the Add Income handler
AddIncomeOutcome(selected_category, new_category) ==
    IF selected_category = "Add Income Category" /\ new_category = "" THEN "new category missing"
    ELSE IF Resolved(new_category, selected_category) = "" THEN "category missing"
    ELSE "added"

\* lines 146-225: the Add Expense form and the Add Item button.  stored is the
\* amount line 186 leaves in cost.
ExpenseEntry(r, f, clicked, stored) ==
    LET w == Widgets(f, "Add Expense")
        e0 == DatesToDate(r.expense_data)
        at_form == [r EXCEPT !.expense_data = e0]
        existing == w.selected \notin {"", "Add Item"}
        item_data == Matching(e0.rows, "Item", w.selected)
        outcome == AddOutcome(w.selected, w.new_text, w.selected_category,
                              w.new_category, "Add Item", "Add Category")
        new_data == [idx |-> 0, Date |-> w.date,
                     Item |-> Resolved(w.new_text, w.selected),
                     Category |-> Resolved(w.new_category, w.selected_category),
                     Cost |-> stored, Currency |-> w.currency,
                     Day |-> IF Has(e0.cols, "Day") THEN NaN ELSE NoCol]
        e1 == Concat(e0, new_data)
    IN  IF existing /\ item_data = <<>>
        THEN [at_form EXCEPT !.msg = Said("IndexError", 161)]
        ELSE IF existing /\ item_data[1].Cost < 1
        THEN [at_form EXCEPT !.msg = Said("StreamlitAPIException", 178)]
        ELSE IF clicked # "Add Item" THEN at_form
        ELSE IF outcome # "added" THEN [at_form EXCEPT !.msg = Said(outcome, 212)]
        ELSE [at_form EXCEPT !.expense_data = e1,
                             !.expense_file = SaveData(e1, FormatDate),
                             !.msg = Said("added", 225)]

\* a widget keeps the value the user gave it for as long as the script builds it
\* from the same options; built from other options it is a new widget at its
\* default.  The date inputs, the category multiselect and the item multiselect
\* of Analyze expense, against the options of the run before.
KeptAnalysis(e2) ==
    LET before == df_date.cols # <<>> /\ expense_data.rows # <<>> /\ e2.rows # <<>>
        dates  == before /\ DateSpan(e2) = DateSpan(expense_data)
        sd == IF dates THEN analysis.start_date ELSE Min(DateSpan(e2))
        ed == IF dates THEN analysis.end_date ELSE Max(DateSpan(e2))
        unique_categories == Unique(DfDate(e2, sd, ed).rows, "Category")
        cs == IF before /\ unique_categories = Unique(df_date.rows, "Category")
              THEN analysis.selected_categories ELSE unique_categories
        unique_items == Unique(DfCategory(e2, sd, ed, cs).rows, "Item")
        is == IF before /\ unique_items = Unique(df_category.rows, "Item")
              THEN analysis.selected_items ELSE unique_items
    IN  [start_date |-> sd, end_date |-> ed,
         selected_categories |-> cs, selected_items |-> is]

\* lines 231-264: Analyze expense.  With user the widgets hold a, the values
\* the user has just given them.  The earliest date of a table without rows is
\* NaT; raises tells whether the date inputs reject it.
AnalyzeExpense(r, user, a, raises) ==
    IF Raised(r.msg) THEN r
    ELSE LET e2 == WithDay(r.expense_data)
             now == IF user THEN a ELSE KeptAnalysis(e2)
         IN  IF e2.rows = <<>> /\ raises
             THEN [r EXCEPT !.expense_data = e2, !.msg = Said("ValueError", 239)]
             ELSE [r EXCEPT !.expense_data = e2,
                            !.analysis = now,
                            !.df_date = DfDate(e2, now.start_date, now.end_date),
                            !.df_category = DfCategory(e2, now.start_date, now.end_date,
                                                       now.selected_categories),
                            !.filtered_df = FilteredDf(e2, now)]

\* lines 305-384: the Add Budget form and the Add Budget Item button
BudgetEntry(r, f, clicked, stored) ==
    LET w == Widgets(f, "Add Budget")
        b0 == r.budget_data
        existing == w.selected \notin {"", "Add Budget Item"}
        budget_item_data == Matching(b0.rows, "Item", w.selected)
        outcome == AddOutcome(w.selected, w.new_text, w.selected_category,
                              w.new_category, "Add Budget Item", "Add Budget Category")
        new_budget_entry ==
            [idx |-> 0, Month |-> MonthIndex(w.month), Year |-> w.year,
             Item |-> Resolved(w.new_text, w.selected),
             Category |-> Resolved(w.new_category, w.selected_category),
             Budget |-> stored, Currency |-> w.currency]
        b1 == Concat(b0, new_budget_entry)
    IN  IF Raised(r.msg) THEN r
        ELSE IF existing /\ budget_item_data = <<>>
        THEN [r EXCEPT !.msg = Said("IndexError", 328)]
        ELSE IF existing /\ budget_item_data[1].Budget < 1
        THEN [r EXCEPT !.msg = Said("StreamlitAPIException", 345)]
        ELSE IF clicked # "Add Budget Item" THEN r
        ELSE IF outcome # "added" THEN [r EXCEPT !.msg = Said(outcome, 368)]
        ELSE [r EXCEPT !.budget_data = b1,
                       !.budget_file = SaveBudgetData(b1),
                       !.msg = Said("added", 383)]

\* lines 400-461: the Add Income form and the Add Income button
IncomeEntry(r, f, clicked, stored) ==
    LET w == Widgets(f, "Add Income")
        i0 == r.income_data
        existing == w.selected_category \notin {"", "Add Income Category"}
        income_category_data == Matching(i0.rows, "Category", w.selected_category)
        outcome == AddIncomeOutcome(w.selected_category, w.new_category)
        new_income_entry ==
            [idx |-> 0, Month |-> MonthIndex(w.month), Year |-> w.year,
             Category |-> Resolved(w.new_category, w.selected_category),
             Income |-> stored, Currency |-> w.currency]
        i1 == Concat(i0, new_income_entry)
    IN  IF Raised(r.msg) THEN r
        ELSE IF existing /\ income_category_data = <<>>
        THEN [r EXCEPT !.msg = Said("IndexError", 425)]
        ELSE IF existing /\ income_category_data[1].Income < 1
        THEN [r EXCEPT !.msg = Said("StreamlitAPIException", 427)]
        ELSE IF clicked # "Add Income" THEN r
        ELSE IF outcome # "added" THEN [r EXCEPT !.msg = Said(outcome, 446)]
        ELSE [r EXCEPT !.income_data = i1,
                       !.income_file = SaveIncomeData(i1),
                       !.msg = Said("added", 460)]

----------------------------------------------------------------------------
(* The three overviews: delete and edit *)

\* the text format_func lists for a row: every column but 'Day', and not the label
ShownExpense(rows) == [i \in DOMAIN rows |-> [rows[i] EXCEPT !.idx = 0, !.Day = NaN]]
ShownRow(rows) == [i \in DOMAIN rows |-> [rows[i] EXCEPT !.idx = 0]]

\* the labels a row selection holds in this run.  With user it holds what the
\* user has just selected.  Otherwise it is the widget of the run before: it
\* keeps the positions selected then when it lists the same texts now, and is a
\* new widget with nothing selected when it lists other texts.
Selection(user, labels, before, now, Shown(_)) ==
    IF user THEN labels
    ELSE IF Shown(before) # Shown(now) THEN {}
    ELSE {now[i].idx : i \in {j \in DOMAIN before : before[j].idx \in labels}}

\* as Drop, the first row always among the dropped
DropWithFirst(df, labels) ==
    LET Keep(r) == r.idx \notin labels /\ r.idx # 0
    IN  [df EXCEPT !.rows = ResetIndex(SelectSeq(df.rows, Keep))]

\* df.drop(labels).reset_index(drop=True), for labels of the table
Drop(df, labels) ==
    LET Keep(r) == r.idx \notin labels
    IN  [df EXCEPT !.rows = ResetIndex(SelectSeq(df.rows, Keep))]

\* lines 607-611: expense_data.at[selected_row, column] = value, five times
EditedExpense(df, label, w) ==
    [df EXCEPT !.rows = [i \in DOMAIN df.rows |->
        IF df.rows[i].idx # label THEN df.rows[i]
        ELSE [df.rows[i] EXCEPT !.Date = ToDatetime(w.date), !.Item = w.new_text,
                                !.Category = w.new_category, !.Cost = w.amount,
                                !.Currency = w.currency]]]

\* lines 684-689
EditedBudget(df, label, w) ==
    [df EXCEPT !.rows = [i \in DOMAIN df.rows |->
        IF df.rows[i].idx # label THEN df.rows[i]
        ELSE [df.rows[i] EXCEPT !.Month = TwoDigits(w.month), !.Year = w.year,
                                !.Item = w.new_text, !.Category = w.new_category,
                                !.Budget = w.amount, !.Currency = w.currency]]]

\* lines 757-761
EditedIncome(df, label, w) ==
    [df EXCEPT !.rows = [i \in DOMAIN df.rows |->
        IF df.rows[i].idx # label THEN df.rows[i]
        ELSE [df.rows[i] EXCEPT !.Month = TwoDigits(w.month), !.Year = w.year,
                                !.Category = w.new_category,
                                !.Income = w.amount, !.Currency = w.currency]]]

\* lines 562-617: the widgets list the rows of filtered_df; the delete drops
\* from expense_data and saves the result without assigning it to expense_data
ExpenseOverview(r, f, clicked, user) ==
    LET now == r.filtered_df.rows
        selected_rows == Selection(user, Widgets(f, "Delete Expense").selected_rows,
                                   filtered_df.rows, now, ShownExpense)
        selected_row == Selection(user, {Widgets(f, "Edit Expense").selected_row} \ {-1},
                                  filtered_df.rows, now, ShownExpense)
        grocery_data == Drop(r.expense_data, selected_rows)
        edited == EditedExpense(r.expense_data, CHOOSE l \in selected_row : TRUE, f)
    IN  IF Raised(r.msg) \/ now = <<>> THEN r
        ELSE IF clicked = "Delete Expense Entry"
        THEN [r EXCEPT !.expense_file = SaveData(grocery_data, FormatTimestamp),
                       !.msg = Said("deleted", 579)]
        ELSE IF clicked = "Save Changes" /\ selected_row # {}
        THEN [r EXCEPT !.expense_data = edited,
                       !.expense_file = SaveData(edited, FormatTimestamp),
                       !.msg = Said("updated", 615)]
        ELSE r

\* lines 633-695: budget_data['Year'].astype(str) changes no text of the table;
\* the delete assigns its result to budget_data
BudgetOverview(r, f, clicked, user) ==
    LET now == r.budget_data.rows
        selected_rows == Selection(user, Widgets(f, "Delete Budget").selected_rows,
                                   budget_data.rows, now, ShownRow)
        selected_row == Selection(user, {Widgets(f, "Edit Budget").selected_row} \ {-1},
                                  budget_data.rows, now, ShownRow)
        dropped == Drop(r.budget_data, selected_rows)
        edited == EditedBudget(r.budget_data, CHOOSE l \in selected_row : TRUE, f)
    IN  IF Raised(r.msg) \/ now = <<>> THEN r
        ELSE IF clicked = "Delete Budget Entry"
        THEN [r EXCEPT !.budget_data = dropped,
                       !.budget_file = SaveBudgetData(dropped),
                       !.msg = Said("deleted", 652)]
        ELSE IF clicked = "Save Changes" /\ selected_row # {}
        THEN [r EXCEPT !.budget_data = edited,
                       !.budget_file = SaveBudgetData(edited),
                       !.msg = Said("updated", 693)]
        ELSE r

\* lines 709-767
IncomeOverview(r, f, clicked, user) ==
    LET now == r.income_data.rows
        selected_rows == Selection(user, Widgets(f, "Delete Income").selected_rows,
                                   income_data.rows, now, ShownRow)
        selected_row == Selection(user, {Widgets(f, "Edit Income").selected_row} \ {-1},
                                  income_data.rows, now, ShownRow)
        dropped == Drop(r.income_data, selected_rows)
        edited == EditedIncome(r.income_data, CHOOSE l \in selected_row : TRUE, f)
    IN  IF Raised(r.msg) \/ now = <<>> THEN r
        ELSE IF clicked = "Delete Income Entry"
        THEN [r EXCEPT !.income_data = dropped,
                       !.income_file = SaveIncomeData(dropped),
                       !.msg = Said("deleted", 727)]
        ELSE IF clicked = "Save Changes" /\ selected_row # {}
        THEN [r EXCEPT !.income_data = edited,
                       !.income_file = SaveIncomeData(edited),
                       !.msg = Said("updated", 765)]
        ELSE r

\* the script from its first line to its last, and Then of what it leaves.  f
\* holds the form widgets, clicked the button that started the run; user tells
\* whether the widgets hold what the user has just entered (a for those of
\* Analyze expense) or what they kept from the run before.
Run(f, clicked, user, a, stored, raises, Then(_)) ==
    \E entered \in {ExpenseEntry(LoadAll, f, clicked, stored)} :
    \E analysed \in {AnalyzeExpense(entered, user, a, raises)} :
    \E budgeted \in {BudgetEntry(analysed, f, clicked, stored)} :
    \E earned \in {IncomeEntry(budgeted, f, clicked, stored)} :
    \E expenses \in {ExpenseOverview(earned, f, clicked, user)} :
    \E budgets \in {BudgetOverview(expenses, f, clicked, user)} :
    \E incomes \in {IncomeOverview(budgets, f, clicked, user)} :
        Then(incomes)

\* the state the run r leaves
Leaves(r, f, clicked) ==
    /\ expense_file' = r.expense_file
    /\ budget_file' = r.budget_file
    /\ income_file' = r.income_file
    /\ expense_data' = r.expense_data
    /\ budget_data' = r.budget_data
    /\ income_data' = r.income_data
    /\ df_date' = r.df_date
    /\ df_category' = r.df_category
    /\ filtered_df' = r.filtered_df
    /\ analysis' = r.analysis
    /\ button' = clicked
    /\ form' = f
    /\ msg' = r.msg
    /\ sessions' = sessions

\* whether the date inputs of Analyze expense reject the date of an empty table
Raises(f, clicked) ==
    IF ExpenseEntry(LoadAll, f, clicked, 0).expense_data.rows = <<>> THEN BOOLEAN
    ELSE {FALSE}

\* the first widget of each form
FormLine(target) ==
    CASE target = "Add Expense" -> 148
      [] target = "Add Budget" -> 315
      [] target = "Add Income" -> 414
      [] target \in {"Delete Expense", "Edit Expense"} -> 570
      [] target \in {"Delete Budget", "Edit Budget"} -> 642
      [] target \in {"Delete Income", "Edit Income"} -> 718
      [] OTHER -> 0

----------------------------------------------------------------------------
(* What the user can enter.  s holds the sample values the user types. *)

\* a text input that is shown holds one of the sample texts
Texts(shown, samples) == IF shown THEN samples ELSE {""}

\* the amount, the currency and the rate: an entry of s is an amount and the
\* rate typed with it when the currency is PKR; prefill is the amount the form
\* proposes
Amounts(s, prefill) ==
    UNION {{[amount |-> c, currency |-> cur, rate |-> IF cur = "PKR" THEN e[2] ELSE 0] :
              c \in {e[1]} \cup prefill, cur \in s.currencies} : e \in s.entries}

\* the Add Expense form.  An item whose first row the script cannot read, or
\* whose cost is below the minimum of the number input, ends the run at the
\* selection of the item.
AddExpenseForms(s) ==
    LET e0 == ExpenseAtForm(expense_file)
        Item(si) == Matching(e0.rows, "Item", si)
        Sentinel(si) == si \in {"", "Add Item"}
        Broken(si) == ~Sentinel(si) /\ (Item(si) = <<>> \/ ExpensePrefill(e0, si).cost < 1)
        Prefill(si) == IF Sentinel(si) THEN {} ELSE {ExpensePrefill(e0, si).cost}
    IN  UNION {
          IF Broken(si) THEN {[NoForm EXCEPT !.target = "Add Expense", !.selected = si]}
          ELSE UNION {
            {[NoForm EXCEPT !.target = "Add Expense", !.date = d, !.selected = si,
                            !.new_text = ni, !.selected_category = sc,
                            !.new_category = nc, !.amount = m.amount,
                            !.currency = m.currency, !.rate = m.rate] :
               d \in s.dates, ni \in Texts(si = "Add Item", s.items),
               nc \in Texts(sc = "Add Category", s.categories),
               m \in Amounts(s, Prefill(si))} :
            sc \in {"", "Add Category"} \cup Unique(e0.rows, "Category")} :
          si \in {"", "Add Item"} \cup Unique(e0.rows, "Item")}

\* the Add Budget form
AddBudgetForms(s) ==
    LET b0 == BudgetAtForm(budget_file)
        Item(si) == Matching(b0.rows, "Item", si)
        Sentinel(si) == si \in {"", "Add Budget Item"}
        Broken(si) == ~Sentinel(si) /\ (Item(si) = <<>> \/ BudgetPrefill(b0, si).budget < 1)
        Prefill(si) == IF Sentinel(si) THEN {} ELSE {BudgetPrefill(b0, si).budget}
    IN  UNION {
          IF Broken(si) THEN {[NoForm EXCEPT !.target = "Add Budget", !.selected = si]}
          ELSE UNION {
            {[NoForm EXCEPT !.target = "Add Budget", !.year = y, !.month = mo,
                            !.selected = si, !.new_text = ni, !.selected_category = sc,
                            !.new_category = nc, !.amount = m.amount,
                            !.currency = m.currency, !.rate = m.rate] :
               y \in s.years, mo \in s.months,
               ni \in Texts(si = "Add Budget Item", s.items),
               nc \in Texts(sc = "Add Budget Category", s.categories),
               m \in Amounts(s, Prefill(si))} :
            sc \in {"", "Add Budget Category"} \cup Unique(b0.rows, "Category")} :
          si \in {"", "Add Budget Item"} \cup Unique(b0.rows, "Item")}

\* the Add Income form
AddIncomeForms(s) ==
    LET i0 == IncomeAtForm(income_file)
        Category(sc) == Matching(i0.rows, "Category", sc)
        Sentinel(sc) == sc \in {"", "Add Income Category"}
        Broken(sc) == ~Sentinel(sc)
                      /\ (Category(sc) = <<>> \/ IncomePrefill(i0, sc).selected_income < 1)
        Prefill(sc) == IF Sentinel(sc) THEN {} ELSE {IncomePrefill(i0, sc).selected_income}
    IN  UNION {
          IF Broken(sc)
          THEN {[NoForm EXCEPT !.target = "Add Income", !.selected_category = sc]}
          ELSE {[NoForm EXCEPT !.target = "Add Income", !.year = y, !.month = mo,
                               !.selected_category = sc, !.new_category = nc,
                               !.amount = m.amount, !.currency = m.currency,
                               !.rate = m.rate] :
                  y \in s.years, mo \in s.months,
                  nc \in Texts(sc = "Add Income Category", s.categories),
                  m \in Amounts(s, Prefill(sc))} :
          sc \in {"", "Add Income Category"} \cup Unique(i0.rows, "Category")}

\* a selection of rows to delete among the rows listed
DeleteForms(target, rows) ==
    IF rows = <<>> THEN {}
    ELSE
    {[NoForm EXCEPT !.target = target, !.selected_rows = labels] :
       labels \in SUBSET {rows[i].idx : i \in DOMAIN rows}}

\* a row to edit: each field holds the row's value or a sample the user types
EditExpenseForms(s, rows) ==
    UNION {
      {[NoForm EXCEPT !.target = "Edit Expense", !.selected_row = rows[i].idx,
                      !.date = d, !.new_text = it, !.new_category = c,
                      !.amount = m, !.currency = cur] :
         d \in {DtDate(rows[i].Date)} \cup s.edit.dates,
         it \in {rows[i].Item} \cup s.edit.items,
         c \in {rows[i].Category} \cup s.edit.categories,
         m \in {rows[i].Cost} \cup s.edit.amounts,
         cur \in {rows[i].Currency} \cup s.edit.currencies} :
      i \in DOMAIN rows}

EditBudgetForms(s, rows) ==
    UNION {
      {[NoForm EXCEPT !.target = "Edit Budget", !.selected_row = rows[i].idx,
                      !.month = mo, !.year = y, !.new_text = it, !.new_category = c,
                      !.amount = m, !.currency = cur] :
         mo \in {rows[i].Month.n} \cup s.edit.months,
         y \in {rows[i].Year} \cup s.edit.years,
         it \in {rows[i].Item} \cup s.edit.items,
         c \in {rows[i].Category} \cup s.edit.categories,
         m \in {rows[i].Budget} \cup s.edit.amounts,
         cur \in {rows[i].Currency} \cup s.edit.currencies} :
      i \in DOMAIN rows}

EditIncomeForms(s, rows) ==
    UNION {
      {[NoForm EXCEPT !.target = "Edit Income", !.selected_row = rows[i].idx,
                      !.month = mo, !.year = y, !.new_category = c,
                      !.amount = m, !.currency = cur] :
         mo \in {rows[i].Month.n} \cup s.edit.months,
         y \in {rows[i].Year} \cup s.edit.years,
         c \in {rows[i].Category} \cup s.edit.categories,
         m \in {rows[i].Income} \cup s.edit.amounts,
         cur \in {rows[i].Currency} \cup s.edit.currencies} :
      i \in DOMAIN rows}

----------------------------------------------------------------------------
(* The runs.  A page is fresh while no form holds a value of the user. *)

Fresh == button = "none" /\ form.target = "none"

\* the table Analyze expense works on when no button is clicked
Loaded == WithDay(ExpenseAtForm(expense_file))

AddTargets == {"Add Expense", "Add Budget", "Add Income"}
RowTargets == {"Delete Expense", "Edit Expense", "Delete Budget", "Edit Budget",
               "Delete Income", "Edit Income"}

\* the page is opened, or reloaded: every widget at its default
Reload ==
    \E raises \in Raises(NoForm, "none") :
        Run(NoForm, "none", TRUE, DefaultAnalysis(Loaded), 0, raises,
            LAMBDA r : Leaves(r, NoForm, "none"))

\* the user sets the widgets of Analyze expense
Analyze ==
    /\ Fresh
    /\ Loaded.rows # <<>>
    /\ \E a \in AnalysisChoices(Loaded) :
          LET f == [NoForm EXCEPT !.target = "Analyze expense"]
          IN  Run(f, "none", TRUE, a, 0, FALSE, LAMBDA r : Leaves(r, f, "none"))

\* the user fills one of the three entry forms, while the tables have room
FillEntry(s) ==
    /\ Fresh
    /\ Stored < s.max_rows
    /\ \E f \in AddExpenseForms(s) \cup AddBudgetForms(s) \cup AddIncomeForms(s) :
       \E raises \in Raises(f, "none") :
          /\ f.target \in s.targets
          /\ Run(f, "none", TRUE, DefaultAnalysis(Loaded), 0, raises,
                 LAMBDA r : Reached(r.msg, FormLine(f.target)) /\ Leaves(r, f, "none"))

\* the user narrows the expense overview and selects rows to delete or a row to edit
SelectExpenseRows(s) ==
    /\ Fresh
    /\ \E a \in AnalysisChoices(Loaded) :
       \E f \in DeleteForms("Delete Expense", FilteredDf(Loaded, a).rows)
                  \cup EditExpenseForms(s, FilteredDf(Loaded, a).rows) :
          /\ f.target \in s.targets
          /\ Run(f, "none", TRUE, a, 0, FALSE, LAMBDA r : Leaves(r, f, "none"))

\* the user selects rows of the budget or the income overview
SelectRows(s) ==
    /\ Fresh
    /\ \E f \in DeleteForms("Delete Budget", BudgetAtForm(budget_file).rows)
                  \cup EditBudgetForms(s, BudgetAtForm(budget_file).rows)
                  \cup DeleteForms("Delete Income", IncomeAtForm(income_file).rows)
                  \cup EditIncomeForms(s, IncomeAtForm(income_file).rows) :
       \E raises \in Raises(f, "none") :
          /\ f.target \in s.targets
          /\ Run(f, "none", TRUE, DefaultAnalysis(Loaded), 0, raises,
                 LAMBDA r : Reached(r.msg, FormLine(f.target)) /\ Leaves(r, f, "none"))

\* a click: the script runs with the widgets as the run before left them
Click(clicked) ==
    \E stored \in (IF form.target \in AddTargets
                   THEN Normalize(form.amount, form.currency, form.rate) ELSE {0}),
       raises \in Raises(form, clicked) :
        Run(form, clicked, FALSE, analysis, stored, raises,
            LAMBDA r : Leaves(r, form, clicked))

AddItem ==
    /\ button = "none" /\ form.target = "Add Expense" /\ Reached(msg, 202)
    /\ Click("Add Item")

AddBudgetItem ==
    /\ button = "none" /\ form.target = "Add Budget" /\ Reached(msg, 356)
    /\ Click("Add Budget Item")

AddIncome ==
    /\ button = "none" /\ form.target = "Add Income" /\ Reached(msg, 437)
    /\ Click("Add Income")

DeleteExpenseEntry ==
    /\ button = "none" /\ form.target = "Delete Expense" /\ Reached(msg, 576)
    /\ Click("Delete Expense Entry")

DeleteBudgetEntry ==
    /\ button = "none" /\ form.target = "Delete Budget" /\ Reached(msg, 649)
    /\ Click("Delete Budget Entry")

DeleteIncomeEntry ==
    /\ button = "none" /\ form.target = "Delete Income" /\ Reached(msg, 724)
    /\ Click("Delete Income Entry")

SaveExpenseChanges ==
    /\ button = "none" /\ form.target = "Edit Expense" /\ Reached(msg, 605)
    /\ Click("Save Changes")

SaveBudgetChanges ==
    /\ button = "none" /\ form.target = "Edit Budget" /\ Reached(msg, 682)
    /\ Click("Save Changes")

SaveIncomeChanges ==
    /\ button = "none" /\ form.target = "Edit Income" /\ Reached(msg, 755)
    /\ Click("Save Changes")

\* another session of the dashboard deletes a row of the table this page has a
\* selection in, after this page was rendered and before its button is clicked
ElsewhereDelete ==
    /\ button = "none"
    /\ form.target \in RowTargets
    /\ \E f \in (IF form.target \in {"Delete Expense", "Edit Expense"}
                 THEN DeleteForms("Delete Expense", Loaded.rows)
                 ELSE IF form.target \in {"Delete Budget", "Edit Budget"}
                 THEN DeleteForms("Delete Budget", BudgetAtForm(budget_file).rows)
                 ELSE DeleteForms("Delete Income", IncomeAtForm(income_file).rows)) :
          LET clicked == IF f.target = "Delete Expense" THEN "Delete Expense Entry"
                         ELSE IF f.target = "Delete Budget" THEN "Delete Budget Entry"
                         ELSE "Delete Income Entry"
          IN  /\ Cardinality(f.selected_rows) = 1
              /\ Run(f, clicked, TRUE, DefaultAnalysis(Loaded), 0, FALSE,
                     LAMBDA r : /\ expense_file' = r.expense_file
                                /\ budget_file' = r.budget_file
                                /\ income_file' = r.income_file)
              /\ UNCHANGED <<expense_data, budget_data, income_data, df_date,
                             df_category, filtered_df, analysis, button, form, msg,
                             sessions>>

----------------------------------------------------------------------------
(* Two sessions: a run as its read of the files and its write of one *)

\* the record session s enters in the Add Expense form: an item of its own,
\* on a day of the model
RaceForms(s) ==
    {[NoForm EXCEPT !.target = "Add Expense", !.date = d, !.selected = "Add Item",
                    !.new_text = IF s = 1 THEN "Milk" ELSE "Tea",
                    !.selected_category = "Add Category", !.new_category = "Food",
                    !.amount = 250, !.currency = "EUR"] : d \in Dates}

\* the record an accepted form adds, as the file holds it
RaceRecord(f) ==
    [Date |-> f.date, Item |-> f.new_text, Category |-> f.new_category,
     Cost |-> f.amount, Currency |-> f.currency]

\* lines 96-98: the user of session s clicks Add Item and the run reads the
\* three files, while the expense file has room
RunLoads(s) ==
    /\ sessions[s].pc = "idle"
    /\ Len(expense_file.rows) < MaxRaceRows
    /\ \E f \in RaceForms(s) :
          sessions' = [sessions EXCEPT ![s] = [@ EXCEPT !.pc = "loaded", !.f = f,
                                                        !.r = LoadAll]]
    /\ UNCHANGED <<expense_file, budget_file, income_file, expense_data, budget_data,
                   income_data, df_date, df_category, filtered_df, analysis, button,
                   form, msg>>

\* lines 202-225: the run of session s reaches the handler of Add Item with the
\* table it has read, appends its record and writes the table
RunSaves(s) ==
    /\ sessions[s].pc = "loaded"
    /\ \E stored \in Normalize(sessions[s].f.amount, sessions[s].f.currency,
                                sessions[s].f.rate) :
          LET out == ExpenseEntry(sessions[s].r, sessions[s].f, "Add Item", stored)
          IN  /\ expense_file' = out.expense_file
              /\ sessions' = [sessions EXCEPT ![s] =
                    [@ EXCEPT !.pc = "idle", !.r = out,
                              !.accepted = IF out.msg.text = "added"
                                           THEN @ \cup {RaceRecord(sessions[s].f)}
                                           ELSE @]]
    /\ UNCHANGED <<budget_file, income_file, expense_data, budget_data, income_data,
                   df_date, df_category, filtered_df, analysis, button, form, msg>>

----------------------------------------------------------------------------
(* Specifications *)

Init ==
    /\ expense_file = NoFile
    /\ budget_file = NoFile
    /\ income_file = NoFile
    /\ expense_data = NoFrame
    /\ budget_data = NoFrame
    /\ income_data = NoFrame
    /\ df_date = NoFrame
    /\ df_category = NoFrame
    /\ filtered_df = NoFrame
    /\ analysis = NoAnalysis
    /\ button = "none"
    /\ form = NoForm
    /\ msg = Quiet
    /\ sessions = NoSessions

\* the rows of the expense tables InitFilter draws
FilterRows ==
    [Date : Dates, Item : ItemNames, Category : CategoryNames,
     Cost : {250}, Currency : {"EUR"}, Day : {NoCol}]

\* an expense file that Add Expense has written, and no run yet
InitFilter ==
    /\ expense_file \in
         {[exists |-> TRUE, cols |-> Append(ExpenseColumns, "Currency"), rows |-> rs] :
            rs \in SeqsUpTo(FilterRows, MaxFilterRows) \ {<<>>}}
    /\ budget_file = NoFile
    /\ income_file = NoFile
    /\ expense_data = NoFrame
    /\ budget_data = NoFrame
    /\ income_data = NoFrame
    /\ df_date = NoFrame
    /\ df_category = NoFrame
    /\ filtered_df = NoFrame
    /\ analysis = NoAnalysis
    /\ button = "none"
    /\ form = NoForm
    /\ msg = Quiet
    /\ sessions = NoSessions

NoEdits == [dates |-> {}, months |-> {}, years |-> {}, items |-> {},
            categories |-> {}, amounts |-> {}, currencies |-> {}]

\* amounts and rates typed into the entry forms
EntrySamples ==
    [dates |-> {1}, years |-> {2026}, months |-> {3},
     items |-> {"Milk"}, categories |-> {"Food"},
     currencies |-> {"EUR", "PKR"},
     entries |-> {<<100, 800>>, <<100000, 31000>>},
     edit |-> NoEdits, targets |-> AddTargets, max_rows |-> MaxEntryRows]

NextEntry ==
    \/ Reload
    \/ FillEntry(EntrySamples)
    \/ AddItem
    \/ AddBudgetItem
    \/ AddIncome

SpecEntry == Init /\ [][NextEntry]_vars

\* texts typed into the entry forms, the empty text among them
FormSamples ==
    [dates |-> {1}, years |-> {2026}, months |-> {3},
     items |-> {"", "Milk"}, categories |-> {"", "Food"},
     currencies |-> {"EUR"}, entries |-> {<<250, 0>>},
     edit |-> NoEdits, targets |-> AddTargets, max_rows |-> MaxFormRows]

NextForms ==
    \/ Reload
    \/ FillEntry(FormSamples)
    \/ AddItem
    \/ AddBudgetItem
    \/ AddIncome

SpecForms == Init /\ [][NextForms]_vars

NextFilter ==
    \/ Reload
    \/ Analyze

SpecFilter == InitFilter /\ [][NextFilter]_vars

\* what the user types into the forms of the whole dashboard: one record to
\* add, and an empty text and a zero amount to edit a record to
Samples ==
    [dates |-> {1}, years |-> {2026}, months |-> {3},
     items |-> {"Milk"}, categories |-> {"Food"},
     currencies |-> {"EUR"}, entries |-> {<<250, 0>>},
     edit |-> [NoEdits EXCEPT !.items = {""}, !.amounts = {0}],
     targets |-> AddTargets \cup RowTargets, max_rows |-> MaxRows]

Next ==
    \/ Reload
    \/ Analyze
    \/ FillEntry(Samples)
    \/ SelectExpenseRows(Samples)
    \/ SelectRows(Samples)
    \/ AddItem
    \/ AddBudgetItem
    \/ AddIncome
    \/ DeleteExpenseEntry
    \/ DeleteBudgetEntry
    \/ DeleteIncomeEntry
    \/ SaveExpenseChanges
    \/ SaveBudgetChanges
    \/ SaveIncomeChanges
    \/ ElsewhereDelete

Spec == Init /\ [][Next]_vars

\* the rows of the tables InitDelete draws
ExpenseDeleteRows ==
    [Date : Dates, Item : ItemNames, Category : {"Food"},
     Cost : {250}, Currency : {"EUR"}, Day : {NoCol}]

BudgetDeleteRows ==
    [Month : {MonthIndex(3), TwoDigits(3)}, Year : {2026}, Item : ItemNames,
     Category : {"Food"}, Budget : {250}, Currency : {"EUR"}]

IncomeDeleteRows ==
    [Month : {MonthIndex(3), TwoDigits(3)}, Year : {2026},
     Category : {"Pay", "Gift"}, Income : {250}, Currency : {"EUR"}]

\* the files of MaxDeleteRows rows with the given columns
Files(cols, Rows) ==
    {[exists |-> TRUE, cols |-> Append(cols, "Currency"), rows |-> rs] :
       rs \in {t \in SeqsUpTo(Rows, MaxDeleteRows) : Len(t) = MaxDeleteRows}}

\* one of the three tables written by adds and edits, and no run yet
InitDelete ==
    /\ \/ /\ expense_file \in Files(ExpenseColumns, ExpenseDeleteRows)
          /\ budget_file = NoFile
          /\ income_file = NoFile
       \/ /\ expense_file = NoFile
          /\ budget_file \in Files(BudgetColumns, BudgetDeleteRows)
          /\ income_file = NoFile
       \/ /\ expense_file = NoFile
          /\ budget_file = NoFile
          /\ income_file \in Files(IncomeColumns, IncomeDeleteRows)
    /\ expense_data = NoFrame
    /\ budget_data = NoFrame
    /\ income_data = NoFrame
    /\ df_date = NoFrame
    /\ df_category = NoFrame
    /\ filtered_df = NoFrame
    /\ analysis = NoAnalysis
    /\ button = "none"
    /\ form = NoForm
    /\ msg = Quiet
    /\ sessions = NoSessions

DeleteSamples ==
    [dates |-> {}, years |-> {}, months |-> {}, items |-> {}, categories |-> {},
     currencies |-> {}, entries |-> {}, edit |-> NoEdits,
     targets |-> {"Delete Expense", "Delete Budget", "Delete Income"},
     max_rows |-> MaxDeleteRows]

NextDelete ==
    \/ Reload
    \/ SelectExpenseRows(DeleteSamples)
    \/ SelectRows(DeleteSamples)
    \/ DeleteExpenseEntry
    \/ DeleteBudgetEntry
    \/ DeleteIncomeEntry

SpecDelete == InitDelete /\ [][NextDelete]_vars

\* the rows of the expense tables InitCharts draws, of two amounts
ChartRows ==
    [Date : Dates, Item : ItemNames, Category : {"Food"},
     Cost : {100, 250}, Currency : {"EUR"}, Day : {NoCol}]

\* an expense file that adds and edits have written, and no run yet
InitCharts ==
    /\ expense_file \in
         {[exists |-> TRUE, cols |-> Append(ExpenseColumns, "Currency"), rows |-> rs] :
            rs \in SeqsUpTo(ChartRows, MaxChartRows) \ {<<>>}}
    /\ budget_file = NoFile
    /\ income_file = NoFile
    /\ expense_data = NoFrame
    /\ budget_data = NoFrame
    /\ income_data = NoFrame
    /\ df_date = NoFrame
    /\ df_category = NoFrame
    /\ filtered_df = NoFrame
    /\ analysis = NoAnalysis
    /\ button = "none"
    /\ form = NoForm
    /\ msg = Quiet
    /\ sessions = NoSessions

NextCharts ==
    \/ Reload
    \/ Analyze

SpecCharts == InitCharts /\ [][NextCharts]_vars

\* the rows of the tables InitPrefill draws: records that share an item (an
\* income category) and differ in category and amount
ExpensePrefillRows ==
    [Date : {1}, Item : ItemNames, Category : CategoryNames,
     Cost : {100, 250}, Currency : {"EUR"}, Day : {NoCol}]

BudgetPrefillRows ==
    [Month : {MonthIndex(3)}, Year : {2026}, Item : ItemNames,
     Category : CategoryNames, Budget : {100, 250}, Currency : {"EUR"}]

IncomePrefillRows ==
    [Month : {MonthIndex(3)}, Year : {2026},
     Category : {"Pay", "Gift"}, Income : {100, 250}, Currency : {"EUR"}]

\* the files of one to MaxPrefillRows rows with the given columns
PrefillFiles(cols, Rows) ==
    {[exists |-> TRUE, cols |-> Append(cols, "Currency"), rows |-> rs] :
       rs \in SeqsUpTo(Rows, MaxPrefillRows) \ {<<>>}}

\* one of the three tables written by adds, and no run yet
InitPrefill ==
    /\ \/ /\ expense_file \in PrefillFiles(ExpenseColumns, ExpensePrefillRows)
          /\ budget_file = NoFile
          /\ income_file = NoFile
       \/ /\ expense_file = NoFile
          /\ budget_file \in PrefillFiles(BudgetColumns, BudgetPrefillRows)
          /\ income_file = NoFile
       \/ /\ expense_file = NoFile
          /\ budget_file = NoFile
          /\ income_file \in PrefillFiles(IncomeColumns, IncomePrefillRows)
    /\ expense_data = NoFrame
    /\ budget_data = NoFrame
    /\ income_data = NoFrame
    /\ df_date = NoFrame
    /\ df_category = NoFrame
    /\ filtered_df = NoFrame
    /\ analysis = NoAnalysis
    /\ button = "none"
    /\ form = NoForm
    /\ msg = Quiet
    /\ sessions = NoSessions

\* the amount the user types where the form's proposal is not kept
TypedAmount == 999

PrefillSamples ==
    [dates |-> {1}, years |-> {2026}, months |-> {3},
     items |-> {"Milk"}, categories |-> {"Food"},
     currencies |-> {"EUR"}, entries |-> {<<TypedAmount, 0>>},
     edit |-> NoEdits, targets |-> AddTargets, max_rows |-> MaxPrefillRows + 1]

NextPrefill ==
    \/ Reload
    \/ FillEntry(PrefillSamples)

SpecPrefill == InitPrefill /\ [][NextPrefill]_vars

NextRace ==
    \/ \E s \in Sessions : RunLoads(s)
    \/ \E s \in Sessions : RunSaves(s)

SpecRace == Init /\ [][NextRace]_vars

\* the rows of the tables InitEdit draws
ExpenseEditRows ==
    [Date : Dates, Item : ItemNames, Category : {"Food"},
     Cost : {250}, Currency : {"EUR"}, Day : {NoCol}]

BudgetEditRows ==
    [Month : {MonthIndex(3)}, Year : {2026}, Item : ItemNames,
     Category : {"Food"}, Budget : {250}, Currency : {"EUR"}]

IncomeEditRows ==
    [Month : {MonthIndex(3)}, Year : {2026},
     Category : {"Pay", "Gift"}, Income : {250}, Currency : {"EUR"}]

\* the files of one to MaxEditRows rows with the given columns
EditFiles(cols, Rows) ==
    {[exists |-> TRUE, cols |-> Append(cols, "Currency"), rows |-> rs] :
       rs \in SeqsUpTo(Rows, MaxEditRows) \ {<<>>}}

\* one of the three tables written by adds in EUR, and no run yet
InitEdit ==
    /\ \/ /\ expense_file \in EditFiles(ExpenseColumns, ExpenseEditRows)
          /\ budget_file = NoFile
          /\ income_file = NoFile
       \/ /\ expense_file = NoFile
          /\ budget_file \in EditFiles(BudgetColumns, BudgetEditRows)
          /\ income_file = NoFile
       \/ /\ expense_file = NoFile
          /\ budget_file = NoFile
          /\ income_file \in EditFiles(IncomeColumns, IncomeEditRows)
    /\ expense_data = NoFrame
    /\ budget_data = NoFrame
    /\ income_data = NoFrame
    /\ df_date = NoFrame
    /\ df_category = NoFrame
    /\ filtered_df = NoFrame
    /\ analysis = NoAnalysis
    /\ button = "none"
    /\ form = NoForm
    /\ msg = Quiet
    /\ sessions = NoSessions

\* what the user types into the edit forms: the currency PKR
EditSamples ==
    [dates |-> {}, years |-> {}, months |-> {}, items |-> {}, categories |-> {},
     currencies |-> {}, entries |-> {},
     edit |-> [NoEdits EXCEPT !.currencies = {"PKR"}],
     targets |-> {"Delete Expense", "Edit Expense", "Edit Budget", "Edit Income"},
     max_rows |-> MaxEditRows]

NextEdit ==
    \/ Reload
    \/ SelectExpenseRows(EditSamples)
    \/ SelectRows(EditSamples)
    \/ DeleteExpenseEntry
    \/ SaveExpenseChanges
    \/ SaveBudgetChanges
    \/ SaveIncomeChanges

SpecEdit == InitEdit /\ [][NextEdit]_vars

----------------------------------------------------------------------------
(* Constraint sets of filter_dataframe, for the claims about it *)

ColFilterSets ==
    {<<>>}
    \cup {<< <<"Category", cs>> >> : cs \in SUBSET CategoryNames}
    \cup {<< <<"Item", is>> >> : is \in SUBSET ItemNames}
    \cup {<< <<"Category", cs>>, <<"Item", is>> >> :
            cs \in SUBSET CategoryNames, is \in SUBSET ItemNames}

ConstraintSets == [cf : ColFilterSets, dr : {NoRange} \cup (Dates \X Dates)]

Constrains(cf, col) == \E i \in DOMAIN cf : cf[i][1] = col
ValuesOf(cf, col) == UNION {cf[i][2] : i \in {j \in DOMAIN cf : cf[j][1] = col}}

\* both constraint sets at once: a column both constrain must lie in both value
\* sets, a date must lie in both ranges
Combined(c1, c2) ==
    LET Entry(col) ==
            IF ~Constrains(c1.cf, col) /\ ~Constrains(c2.cf, col) THEN <<>>
            ELSE IF ~Constrains(c2.cf, col) THEN << <<col, ValuesOf(c1.cf, col)>> >>
            ELSE IF ~Constrains(c1.cf, col) THEN << <<col, ValuesOf(c2.cf, col)>> >>
            ELSE << <<col, ValuesOf(c1.cf, col) \cap ValuesOf(c2.cf, col)>> >>
    IN  [cf |-> Entry("Category") \o Entry("Item"),
         dr |-> IF c1.dr = NoRange THEN c2.dr
                ELSE IF c2.dr = NoRange THEN c1.dr
                ELSE <<Max({c1.dr[1], c2.dr[1]}), Min({c1.dr[2], c2.dr[2]})>>]

Filtered(df, c) == FilterDataframe(df, c.cf, c.dr).rows

\* the constraint set of the run's last filter_dataframe call
RunConstraints ==
    [cf |-> << <<"Category", analysis.selected_categories>>,
               <<"Item", analysis.selected_items>> >>,
     dr |-> <<analysis.start_date, analysis.end_date>>]

\* the script has analysed a table with rows in it
HasAnalysed == expense_data.rows # <<>> /\ filtered_df.cols # <<>>

\* C1: filtering the run's filtered view by a second constraint set gives the
\* rows of one call on the whole table with both sets combined, and the same
\* rows as applying the two sets in the other order
C1_FiltersCompose ==
    HasAnalysed =>
        \A c2 \in ConstraintSets :
            /\ Filtered(filtered_df, c2) = Filtered(expense_data, Combined(RunConstraints, c2))
            /\ Filtered(filtered_df, c2) =
                 Filtered([expense_data EXCEPT !.rows = Filtered(expense_data, c2)],
                          RunConstraints)

\* the run's filter dropped a row, a second one drops the rest: each set alone
\* keeps a row and the two together keep none
C1_Witness ==
    /\ HasAnalysed
    /\ filtered_df.rows # <<>>
    /\ Len(filtered_df.rows) < Len(expense_data.rows)
    /\ \E c2 \in ConstraintSets :
          /\ Filtered(expense_data, c2) # <<>>
          /\ Filtered(filtered_df, c2) = <<>>

\* the rows of the file (by 0-based position) dated from start to end
DatedWithin(start, end) ==
    {i - 1 : i \in {j \in DOMAIN expense_file.rows :
                      /\ start <= expense_file.rows[j].Date
                      /\ expense_file.rows[j].Date <= end}}

\* C2: a date range keeps exactly the rows dated start <= date <= end, both
\* days included; a range (d, d) keeps exactly the rows dated d
C2_DateRangeInclusive ==
    HasAnalysed =>
        /\ Index(df_date) = DatedWithin(analysis.start_date, analysis.end_date)
        /\ \A d \in Dates :
              Index(FilterDataframe(expense_data, NoFilters, <<d, d>>))
                = {i - 1 : i \in {j \in DOMAIN expense_file.rows :
                                    expense_file.rows[j].Date = d}}
        /\ \A s \in Dates, e \in Dates :
              Index(FilterDataframe(expense_data, NoFilters, <<s, e>>)) = DatedWithin(s, e)

\* a run with start = end that kept a row of that day and dropped another
C2_Witness ==
    /\ HasAnalysed
    /\ analysis.start_date = analysis.end_date
    /\ df_date.rows # <<>>
    /\ Len(df_date.rows) < Len(expense_data.rows)

\* C3: a column constraint with no acceptable value leaves no row, whatever the
\* table and the other constraints
C3_EmptySetNoRows ==
    HasAnalysed =>
        /\ analysis.selected_categories = {} =>
              df_category.rows = <<>> /\ filtered_df.rows = <<>>
        /\ analysis.selected_items = {} => filtered_df.rows = <<>>
        /\ \A c \in ConstraintSets :
              (\E i \in DOMAIN c.cf : c.cf[i][2] = {}) => Filtered(expense_data, c) = <<>>

\* every category deselected over a date range that holds rows
C3_Witness ==
    /\ HasAnalysed
    /\ analysis.selected_categories = {}
    /\ df_date.rows # <<>>
    /\ filtered_df.rows = <<>>

----------------------------------------------------------------------------
(* The entry forms: what an add stores *)

AddButtons == {"Add Item", "Add Budget Item", "Add Income"}

\* the run was started by an add button and its handler appended a record
Accepted == button \in AddButtons /\ msg.text = "added"

\* the amount of the last record of the table the button adds to
LastAmount ==
    CASE button = "Add Item" -> expense_file.rows[Len(expense_file.rows)].Cost
      [] button = "Add Budget Item" -> budget_file.rows[Len(budget_file.rows)].Budget
      [] OTHER -> income_file.rows[Len(income_file.rows)].Income

\* cost / rate to the nearest hundredth, a half rounded up (in cents)
HalfUp(cost, rate) == (200 * cost + rate) \div (2 * rate)

\* C4: an amount entered in PKR at rate r is stored as amount / r rounded to
\* two decimal places, a half rounded up, in each of the three tables
C4_StoredHalfUp ==
    (Accepted /\ form.currency = "PKR") => LastAmount = HalfUp(form.amount, form.rate)

\* normalizing n times over
RECURSIVE NormalizeTimes(_, _, _, _)
NormalizeTimes(costs, currency, rate, n) ==
    IF n = 0 THEN costs
    ELSE NormalizeTimes(UNION {Normalize(c, currency, rate) : c \in costs}, currency, rate, n - 1)

\* C5: an amount entered in EUR is stored as entered, and normalizing it again
\* as an EUR amount, any number of times at any rate, gives the same amount
C5_BaseUnchanged ==
    (Accepted /\ form.currency = "EUR") =>
        /\ LastAmount = form.amount
        /\ \A n \in 0..MaxTimes, e \in EntrySamples.entries :
              NormalizeTimes({LastAmount}, "EUR", e[2], n) = {form.amount}

\* an EUR amount added to a table that held a record already
C5_Witness ==
    /\ Accepted
    /\ form.currency = "EUR"
    /\ form.amount = 100000
    /\ Stored > 1

\* the condition under which the claim asks for a rejection: a sentinel option
\* with an empty text, or an empty resolved value
MissingField(f) ==
    LET no_item == \/ f.selected \in {"Add Item", "Add Budget Item"} /\ f.new_text = ""
                   \/ Resolved(f.new_text, f.selected) = ""
        no_category ==
                   \/ /\ f.selected_category \in {"Add Category", "Add Budget Category",
                                                   "Add Income Category"}
                      /\ f.new_category = ""
                   \/ Resolved(f.new_category, f.selected_category) = ""
    IN  IF f.target = "Add Income" THEN no_category ELSE no_item \/ no_category

MissingFieldErrors ==
    {"new item missing", "new category missing", "item or category missing",
     "category missing"}

\* the tables as a run without a handler holds them in memory
InMemoryAsLoaded ==
    /\ expense_data' = WithDay(ExpenseAtForm(expense_file))
    /\ budget_data' = BudgetAtForm(budget_file)
    /\ income_data' = IncomeAtForm(income_file)

\* one record more in the table of the button, the records before it and the
\* two other tables as they were
OneAppended ==
    LET Grown(before, after) ==
            /\ Len(after.rows) = Len(before.rows) + 1
            /\ SubSeq(after.rows, 1, Len(before.rows)) = before.rows
    IN  CASE button' = "Add Item" ->
               /\ Grown(expense_file, expense_file')
               /\ UNCHANGED <<budget_file, income_file>>
          [] button' = "Add Budget Item" ->
               /\ Grown(budget_file, budget_file')
               /\ UNCHANGED <<expense_file, income_file>>
          [] OTHER ->
               /\ Grown(income_file, income_file')
               /\ UNCHANGED <<expense_file, budget_file>>

\* C7: an add whose handler runs is rejected with a missing-field error exactly
\* when a sentinel option comes with an empty text or a resolved value is
\* empty; a rejected add leaves the persisted and the in-memory tables as
\* they were, an accepted add appends one record
C7_RejectedOrAppended ==
    [][(button' \in AddButtons /\ ~Raised(msg')) =>
          IF MissingField(form')
          THEN /\ msg'.text \in MissingFieldErrors
               /\ UNCHANGED <<expense_file, budget_file, income_file>>
               /\ InMemoryAsLoaded
          ELSE /\ msg'.text = "added"
               /\ OneAppended]_vars

\* "Add Category" with no text, on a form whose item is given, at a table that
\* holds a record: rejected
C7_Witness ==
    /\ button = "Add Item"
    /\ msg.text = "new category missing"
    /\ form.new_text = "Milk"
    /\ expense_file.rows # <<>>
    /\ Len(expense_data.rows) = Len(expense_file.rows)

----------------------------------------------------------------------------
(* The overviews: what an edit and a delete leave *)

\* C8: every record of a persisted table has an item (where the table has
\* the column) and a category that are not empty, and an amount above 0
C8_PersistedValid ==
    /\ \A i \in DOMAIN expense_file.rows :
          /\ expense_file.rows[i].Item # ""
          /\ expense_file.rows[i].Category # ""
          /\ expense_file.rows[i].Cost > 0
    /\ \A i \in DOMAIN budget_file.rows :
          /\ budget_file.rows[i].Item # ""
          /\ budget_file.rows[i].Category # ""
          /\ budget_file.rows[i].Budget > 0
    /\ \A i \in DOMAIN income_file.rows :
          /\ income_file.rows[i].Category # ""
          /\ income_file.rows[i].Income > 0

\* the rows at the positions whose label is not among labels, from position i on
RECURSIVE Remaining(_, _, _)
Remaining(rows, labels, i) ==
    IF i > Len(rows) THEN <<>>
    ELSE (IF i - 1 \in labels THEN <<>> ELSE <<rows[i]>>) \o Remaining(rows, labels, i + 1)

\* the fields of the records of a file; a month is the number it denotes
ExpenseFields(rows) ==
    [i \in DOMAIN rows |-> [Date |-> rows[i].Date, Item |-> rows[i].Item,
                            Category |-> rows[i].Category, Cost |-> rows[i].Cost,
                            Currency |-> rows[i].Currency]]

BudgetFields(rows) ==
    [i \in DOMAIN rows |-> [Month |-> rows[i].Month.n, Year |-> rows[i].Year,
                            Item |-> rows[i].Item, Category |-> rows[i].Category,
                            Budget |-> rows[i].Budget, Currency |-> rows[i].Currency]]

IncomeFields(rows) ==
    [i \in DOMAIN rows |-> [Month |-> rows[i].Month.n, Year |-> rows[i].Year,
                            Category |-> rows[i].Category, Income |-> rows[i].Income,
                            Currency |-> rows[i].Currency]]

\* C9: a delete persists exactly the rows that were not selected, in the order
\* they had and with the field values they had, in each of the three tables
C9_DeleteKeepsUnselected ==
    [][/\ (button' = "Delete Expense Entry" /\ msg'.text = "deleted") =>
            /\ ExpenseFields(expense_file'.rows)
                 = ExpenseFields(Remaining(expense_file.rows, form'.selected_rows, 1))
            /\ UNCHANGED <<budget_file, income_file>>
       /\ (button' = "Delete Budget Entry" /\ msg'.text = "deleted") =>
            /\ BudgetFields(budget_file'.rows)
                 = BudgetFields(Remaining(budget_file.rows, form'.selected_rows, 1))
            /\ UNCHANGED <<expense_file, income_file>>
       /\ (button' = "Delete Income Entry" /\ msg'.text = "deleted") =>
            /\ IncomeFields(income_file'.rows)
                 = IncomeFields(Remaining(income_file.rows, form'.selected_rows, 1))
            /\ UNCHANGED <<expense_file, budget_file>>]_vars

\* row 1 of three rows deleted: the file holds the former rows 0 and 2, which
\* differ, in that order
C9_Witness ==
    /\ button = "Delete Expense Entry"
    /\ msg.text = "deleted"
    /\ form.selected_rows = {1}
    /\ Len(expense_data.rows) = 3
    /\ Len(expense_file.rows) = 2
    /\ expense_data.rows[1].Item # expense_data.rows[3].Item
    /\ expense_file.rows[1].Item = expense_data.rows[1].Item
    /\ expense_file.rows[2].Item = expense_data.rows[3].Item

\* the labels the form has selected
Addressed == form.selected_rows \cup ({form.selected_row} \ {-1})

\* the number of rows of the table the form has a selection in
RowsOfTarget ==
    IF form.target \in {"Delete Expense", "Edit Expense"} THEN Len(expense_file.rows)
    ELSE IF form.target \in {"Delete Budget", "Edit Budget"} THEN Len(budget_file.rows)
    ELSE Len(income_file.rows)

\* a delete or save button is clicked on a page whose selection holds a label
\* the table no longer has
StaleClick ==
    /\ button = "none"
    /\ button' \in {"Delete Expense Entry", "Delete Budget Entry",
                    "Delete Income Entry", "Save Changes"}
    /\ \E label \in Addressed : label >= RowsOfTarget

\* C10: an edit or a delete of a row index the table no longer has is
\* reported as an index-out-of-range error and leaves the tables unchanged
C10_StaleIndexReported ==
    [][StaleClick => /\ msg'.text = "index out of range"
                     /\ UNCHANGED <<expense_file, budget_file, income_file>>]_vars

----------------------------------------------------------------------------
(* Load, then persist with nothing edited *)

\* a delete button clicked with no row selected: the script loads the three
\* tables and writes one of them back
NoRowsDelete ==
    /\ button = "none"
    /\ button' \in {"Delete Expense Entry", "Delete Budget Entry", "Delete Income Entry"}
    /\ msg'.text = "deleted"
    /\ form'.selected_rows = {}

\* C11: a table that is loaded and persisted with no edit in between keeps
\* its persisted content, the same columns and the same rows with the same
\* values, in each of the three tables; a delete with no rows selected is
\* such a path
C11_LoadPersistUnchanged ==
    [][NoRowsDelete =>
         /\ expense_file'.cols = expense_file.cols
         /\ ExpenseFields(expense_file'.rows) = ExpenseFields(expense_file.rows)
         /\ budget_file'.cols = budget_file.cols
         /\ BudgetFields(budget_file'.rows) = BudgetFields(budget_file.rows)
         /\ income_file'.cols = income_file.cols
         /\ IncomeFields(income_file'.rows) = IncomeFields(income_file.rows)]_vars

----------------------------------------------------------------------------
(* The charts: what the grouped sums hold *)

\* the script has drawn the charts of a filtered view with rows in it
HasCharts == HasAnalysed /\ filtered_df.rows # <<>>

\* C12: the sums of the by-item aggregation of the filtered view add up to
\* the sum of the amounts of all its rows
C12_ItemSumsAddUp ==
    HasCharts => \A category_cost \in CategoryCost(filtered_df) :
                    SumCost(category_cost) = TotalCost(filtered_df)

\* the items of the rows, a row with a missing item having none
ItemsOf(rows) == Unique(rows, "Item") \ {NaN}

\* the position of the first row that holds the item
FirstSeen(rows, item) == Min({i \in DOMAIN rows : rows[i].Item = item})

\* the sum of the amounts of the rows at the positions I
RECURSIVE SumAt(_, _)
SumAt(rows, I) ==
    IF I = {} THEN 0
    ELSE LET i == CHOOSE k \in I : TRUE IN rows[i].Cost + SumAt(rows, I \ {i})

\* one entry per item of the rows, holding the sum of the item's amounts, the
\* entries from the highest sum to the lowest
ItemsDescending(rows, category_cost) ==
    /\ {category_cost[k].key : k \in DOMAIN category_cost} = ItemsOf(rows)
    /\ Len(category_cost) = Cardinality(ItemsOf(rows))
    /\ \A k \in DOMAIN category_cost :
          category_cost[k].Cost
            = SumAt(rows, {i \in DOMAIN rows : rows[i].Item = category_cost[k].key})
    /\ \A k, l \in DOMAIN category_cost :
          k < l => category_cost[k].Cost >= category_cost[l].Cost

\* entries of equal sum stand in the order their items first appear in the rows
TiesFirstSeen(rows, category_cost) ==
    \A k, l \in DOMAIN category_cost :
        (k < l /\ category_cost[k].Cost = category_cost[l].Cost)
          => FirstSeen(rows, category_cost[k].key) < FirstSeen(rows, category_cost[l].key)

\* C13, with the order of equal sums: the by-item aggregation holds one entry
\* per distinct item, ordered by summed amount descending, entries of equal
\* sum in the order in which their items first appear in the input rows
C13_ItemsDescendingFirstSeen ==
    HasCharts => \A category_cost \in CategoryCost(filtered_df) :
                    /\ ItemsDescending(filtered_df.rows, category_cost)
                    /\ TiesFirstSeen(filtered_df.rows, category_cost)

\* C13, the order of equal sums left open: the by-item aggregation holds one
\* entry per distinct item that is not missing, with the sum of the item's
\* amounts, ordered by summed amount descending
C13_ItemsDescending ==
    HasCharts => \A category_cost \in CategoryCost(filtered_df) :
                    ItemsDescending(filtered_df.rows, category_cost)

\* three rows of two items in the view: the item seen first has the lower sum
\* and the other one, with two rows, stands first in the chart
C13_Witness ==
    /\ HasCharts
    /\ Len(filtered_df.rows) = 3
    /\ filtered_df.rows[1].Item = "Milk"
    /\ filtered_df.rows[2].Item = "Tea"
    /\ filtered_df.rows[3].Item = "Tea"
    /\ \A category_cost \in CategoryCost(filtered_df) :
          /\ Len(category_cost) = 2
          /\ category_cost[1].key = "Tea"
          /\ category_cost[1].Cost > category_cost[2].Cost

\* the positions of the rows dated ts
DatedAt(rows, ts) == {i \in DOMAIN rows : rows[i].Date = ts}

\* C14: the by-date aggregation of the filtered view holds exactly one entry
\* for each date a row of the view has, with the sum of the amounts of the
\* rows of that date, and no entry for any other date
C14_OneEntryPerDate ==
    HasAnalysed =>
        LET rows == filtered_df.rows
            cost_over_time == CostOverTime(filtered_df)
            Entries(ts) == {k \in DOMAIN cost_over_time : cost_over_time[k].key = ts}
        IN  /\ \A k \in DOMAIN cost_over_time : DatedAt(rows, cost_over_time[k].key) # {}
            /\ \A i \in DOMAIN rows :
                  /\ Cardinality(Entries(rows[i].Date)) = 1
                  /\ \A k \in Entries(rows[i].Date) :
                        cost_over_time[k].Cost = SumAt(rows, DatedAt(rows, rows[i].Date))
            /\ \A d \in Dates :
                  DatedAt(rows, ToDatetime(d)) = {} => Entries(ToDatetime(d)) = {}

\* a table with rows of both days whose view holds two rows of one day, of
\* different amounts, and none of the other day: one entry, the sum of the two
C14_Witness ==
    /\ HasAnalysed
    /\ Len(expense_data.rows) = 3
    /\ Len(filtered_df.rows) = 2
    /\ filtered_df.rows[1].Date = filtered_df.rows[2].Date
    /\ filtered_df.rows[1].Cost # filtered_df.rows[2].Cost
    /\ \E i \in DOMAIN expense_data.rows :
          expense_data.rows[i].Date # filtered_df.rows[1].Date
    /\ Len(CostOverTime(filtered_df)) = 1
    /\ CostOverTime(filtered_df)[1].Cost = 350

----------------------------------------------------------------------------
(* The entry forms: what selecting an existing item proposes *)

\* the first row of the table, in table order, that holds v in col
FirstRowWith(rows, col, v) == rows[Min({i \in DOMAIN rows : rows[i][col] = v})]

\* the rows after the first one that hold v in col
LaterRowsWith(rows, col, v) ==
    {rows[i] : i \in {j \in DOMAIN rows : rows[j][col] = v}
                      \ {Min({j \in DOMAIN rows : rows[j][col] = v})}}

\* the form the user has filled keeps the typed amount or the proposed one
ProposedOrTyped(target, proposed) ==
    (form.target = target /\ form.currency # "") => form.amount \in {TypedAmount, proposed}

\* C15: when several records share the selected item (for Income, the
\* category), the category and the amount the form proposes are those of the
\* first such record in table order
C15_PrefillFirstMatch ==
    /\ LET e0 == ExpenseAtForm(expense_file)
       IN  \A si \in Unique(e0.rows, "Item") :
              /\ ExpensePrefill(e0, si).selected_category
                   = FirstRowWith(e0.rows, "Item", si).Category
              /\ ExpensePrefill(e0, si).cost = FirstRowWith(e0.rows, "Item", si).Cost
              /\ form.selected = si =>
                    ProposedOrTyped("Add Expense", FirstRowWith(e0.rows, "Item", si).Cost)
    /\ LET b0 == BudgetAtForm(budget_file)
       IN  \A si \in Unique(b0.rows, "Item") :
              /\ BudgetPrefill(b0, si).selected_budget_category
                   = FirstRowWith(b0.rows, "Item", si).Category
              /\ BudgetPrefill(b0, si).budget = FirstRowWith(b0.rows, "Item", si).Budget
              /\ form.selected = si =>
                    ProposedOrTyped("Add Budget", FirstRowWith(b0.rows, "Item", si).Budget)
    /\ LET i0 == IncomeAtForm(income_file)
       IN  \A sc \in Unique(i0.rows, "Category") :
              /\ IncomePrefill(i0, sc).selected_income
                   = FirstRowWith(i0.rows, "Category", sc).Income
              /\ form.selected_category = sc =>
                    ProposedOrTyped("Add Income", FirstRowWith(i0.rows, "Category", sc).Income)

\* the Add Expense form with an item selected that two records hold with
\* different categories and amounts: the amount in the form is the one of the
\* first record, and the proposed category is the first record's too
C15_Witness ==
    /\ form.target = "Add Expense"
    /\ form.selected = "Milk"
    /\ Len(expense_file.rows) = 2
    /\ expense_file.rows[1].Item = "Milk"
    /\ expense_file.rows[2].Item = "Milk"
    /\ expense_file.rows[1].Category # expense_file.rows[2].Category
    /\ expense_file.rows[1].Cost # expense_file.rows[2].Cost
    /\ form.amount = expense_file.rows[1].Cost
    /\ ExpensePrefill(ExpenseAtForm(expense_file), "Milk").selected_category
         = expense_file.rows[1].Category

----------------------------------------------------------------------------
(* The edit forms: the amount an edit stores *)

\* a Save Changes click whose handler wrote the selected row
EditSaved == button = "none" /\ button' = "Save Changes" /\ msg'.text = "updated"

\* the rates an edited amount can have been converted at: the rate the rate
\* inputs propose (310.00) and the one typed in EntrySamples
EditRates == {31000} \cup {e[2] : e \in EntrySamples.entries}

\* the edited amount as the Currency Normalizer gives it at one of the rates
Normalized(stored) ==
    \E rate \in EditRates : stored \in Normalize(form'.amount, form'.currency, rate)

\* C16: an edit that changes the currency of a record persists the edited
\* amount as the Currency Normalizer converts it, so that the stored amount is
\* in the base currency, in each of the three tables
C16_EditNormalizes ==
    [][EditSaved =>
         LET at == form'.selected_row + 1
         IN  /\ (form'.target = "Edit Expense"
                   /\ expense_file.rows[at].Currency # form'.currency)
                  => Normalized(expense_file'.rows[at].Cost)
             /\ (form'.target = "Edit Budget"
                   /\ budget_file.rows[at].Currency # form'.currency)
                  => Normalized(budget_file'.rows[at].Budget)
             /\ (form'.target = "Edit Income"
                   /\ income_file.rows[at].Currency # form'.currency)
                  => Normalized(income_file'.rows[at].Income)]_vars

----------------------------------------------------------------------------
(* The expense overview: rows selected from the filtered view *)

\* a click of the delete or the save button of the expense overview that
\* wrote the table
ExpenseRowsClick ==
    /\ button = "none"
    /\ \/ button' = "Delete Expense Entry" /\ msg'.text = "deleted"
       \/ button' = "Save Changes" /\ form'.target = "Edit Expense" /\ msg'.text = "updated"

\* every row of the view the user selects from is the row of the persisted
\* table at the index the view gives it
ViewKeepsIndices ==
    \A i \in DOMAIN filtered_df.rows :
        LET at == filtered_df.rows[i].idx + 1
        IN  /\ at \in DOMAIN expense_file.rows
            /\ ExpenseFields(<<expense_file.rows[at]>>)
                 = ExpenseFields(<<[filtered_df.rows[i] EXCEPT
                                      !.Date = DtDate(filtered_df.rows[i].Date)]>>)

\* the fields the edit form holds
EditedFields ==
    [Date |-> form'.date, Item |-> form'.new_text, Category |-> form'.new_category,
     Cost |-> form'.amount, Currency |-> form'.currency]

\* C18: the rows of the filtered expense view carry the indices they have in
\* the full table, so a delete of rows selected from the view removes exactly
\* those rows of the full table, and an edit of a row selected from the view
\* changes exactly that row; every other row stays as it was
C18_ViewAddressesTable ==
    [][ExpenseRowsClick =>
         /\ ViewKeepsIndices
         /\ form'.selected_rows \subseteq Index(filtered_df)
         /\ form'.target = "Edit Expense" => form'.selected_row \in Index(filtered_df)
         /\ button' = "Delete Expense Entry" =>
               ExpenseFields(expense_file'.rows)
                 = ExpenseFields(Remaining(expense_file.rows, form'.selected_rows, 1))
         /\ button' = "Save Changes" =>
               /\ Len(expense_file'.rows) = Len(expense_file.rows)
               /\ \A k \in DOMAIN expense_file.rows :
                     ExpenseFields(<<expense_file'.rows[k]>>)[1]
                       = IF k = form'.selected_row + 1 THEN EditedFields
                         ELSE ExpenseFields(<<expense_file.rows[k]>>)[1]]_vars

\* a view narrowed to the second row of a table of two different rows, and
\* that row deleted from the view: the file holds the first row
C18_Witness ==
    /\ button = "Delete Expense Entry"
    /\ msg.text = "deleted"
    /\ Len(expense_data.rows) = 2
    /\ expense_data.rows[1].Item # expense_data.rows[2].Item
    /\ Len(filtered_df.rows) = 1
    /\ filtered_df.rows[1].idx = 1
    /\ form.selected_rows = {1}
    /\ Len(expense_file.rows) = 1
    /\ expense_file.rows[1].Item = expense_data.rows[1].Item

----------------------------------------------------------------------------
(* Two sessions writing the expense table *)

\* the expense file holds the record
Persisted(rec) ==
    \E i \in DOMAIN expense_file.rows : ExpenseFields(<<expense_file.rows[i]>>)[1] = rec

\* while only session s has run, the file holds every record its runs have
\* reported as added
SoloKeeps ==
    \A s \in Sessions :
        (\A t \in Sessions \ {s} : sessions[t] = NoRun)
          => \A rec \in sessions[s].accepted : Persisted(rec)

\* a run that writes the file it has read, no other run having written in
\* between, keeps every record of the file and appends its own
UnracedSaveAppends ==
    \A s \in Sessions :
        (/\ sessions[s].pc = "loaded"
         /\ sessions'[s].pc = "idle"
         /\ sessions[s].r.expense_file = expense_file)
          => ExpenseFields(expense_file'.rows)
               = Append(ExpenseFields(expense_file.rows), RaceRecord(sessions[s].f))

\* C17: with a single session every accepted add is present in the persisted
\* table (no record is deleted here), and a run loses no record unless another
\* session has written between its read and its write; with two sessions that
\* each read the table in full and later write it in full, the interleaving of
\* C17_Witness leaves a record one session had accepted and persisted out of
\* the final table
C17_LastWriterWins == []SoloKeeps /\ [][UnracedSaveAppends]_vars

\* both sessions have read the empty table, both have written and reported
\* their record as added, and the file holds the record of session 2 alone
C17_Witness ==
    /\ \A s \in Sessions : sessions[s].pc = "idle" /\ sessions[s].r.msg.text = "added"
    /\ \A s \in Sessions : sessions[s].accepted = {RaceRecord(sessions[s].f)}
    /\ Len(expense_file.rows) = 1
    /\ ~Persisted(RaceRecord(sessions[1].f))
    /\ Persisted(RaceRecord(sessions[2].f))

====
